---- MODULE Spec2Model ----
(***************************************************************************)
(* A model of pixl: the Texture pixel buffer (src/src/texture.rs), the     *)
(* Color packing (src/src/color.rs) and the shape rasterizers              *)
(* (src/src/rectangle.rs, src/src/circle.rs, src/src/line.rs).             *)
(*                                                                         *)
(* usize/isize are modelled with a 16-bit word instead of 64 bits: every   *)
(* texture of the model is far smaller than either, and the only place the *)
(* width shows is the wrap of a negative isize cast to usize, which lands  *)
(* above every texture dimension for both widths.  f64 coordinates are     *)
(* whole numbers here (the fraction `as usize` truncates is not drawn).    *)
(***************************************************************************)
EXTENDS Integers, Sequences, FiniteSets, TLC

\* ---- bounds of the model ------------------------------------------------
MaxDim == 3
MaxCoord == 3
MaxSize == 2
MaxRadius == 1
MaxOps == 2

\* ---- machine integers ---------------------------------------------------
UsizeModulus == 2^16
UsizeMax == UsizeModulus - 1
IsizeMax == (UsizeModulus \div 2) - 1
IsizeMin == -(UsizeModulus \div 2)

\* `v as usize` for an f64 v: saturating, negative values give 0.
F64AsUsize(v) == IF v < 0 THEN 0 ELSE IF v > UsizeMax THEN UsizeMax ELSE v

\* `i as usize` for an isize i: two's complement reinterpretation.
IsizeAsUsize(i) == IF i < 0 THEN i + UsizeModulus ELSE i

\* `u as isize` for a usize u: two's complement reinterpretation.
UsizeAsIsize(u) == IF u > IsizeMax THEN u - UsizeModulus ELSE u

\* usize::try_into::<isize>().unwrap_or(isize::MAX)
TryIntoIsize(u) == IF u > IsizeMax THEN IsizeMax ELSE u

saturating_sub(a, b) == IF a - b < IsizeMin THEN IsizeMin ELSE IF a - b > IsizeMax THEN IsizeMax ELSE a - b

saturating_add(a, b) == IF a + b < IsizeMin THEN IsizeMin ELSE IF a + b > IsizeMax THEN IsizeMax ELSE a + b

saturating_pow2(a) == IF a * a > IsizeMax THEN IsizeMax ELSE a * a

\* ---- Color ----------------------------------------------------------------
rgba(r, g, b, a) == [r |-> r, g |-> g, b |-> b, a |-> a]

rgb(r, g, b) == rgba(r, g, b, 255)

BLACK == rgb(0, 0, 0)
RED == rgb(255, 0, 0)
GREEN == rgb(0, 255, 0)

\* `v as u8`
AsU8(v) == v % 256

from_hex_saturating(hex) ==
    LET r == hex \div 65536
        hex1 == hex - r * 65536
        g == hex1 \div 256
        hex2 == hex1 - g * 256
        b == hex2
    IN  [r |-> IF r > 255 THEN 255 ELSE r, g |-> AsU8(g), b |-> AsU8(b), a |-> 255]

from_hex_swapped(hex) ==
    LET r == hex \div 65536
        hex1 == hex - r * 65536
        g == hex1 \div 256
        hex2 == hex1 - g * 256
        b == hex2
    IN  [r |-> AsU8(b), g |-> AsU8(g), b |-> AsU8(r), a |-> 255]

from_hex(hex) ==
    LET r == hex \div 65536
        hex1 == hex - r * 65536
        g == hex1 \div 256
        hex2 == hex1 - g * 256
        b == hex2
    IN  [r |-> AsU8(r), g |-> AsU8(g), b |-> AsU8(b), a |-> 255]

to_hex_alpha_for_blue(c) == c.r * 65536 + c.g * 256 + c.a

to_hex(c) == c.r * 65536 + c.g * 256 + c.b

\* ---- Texture --------------------------------------------------------------
Some(v) == [tag |-> "Some", val |-> v]
None == [tag |-> "None", val |-> 0]
Ok == [tag |-> "Ok", val |-> 0]
Err(msg) == [tag |-> "Err", val |-> msg]
Unit == [tag |-> "Unit", val |-> 0]
Panic == [tag |-> "Panic", val |-> 0]

new_pixels_square(w, h) == [i \in 1..(w * w) |-> BLACK]

\* Texture::new: vec![Color::BLACK; width * height]
new_pixels(w, h) == [i \in 1..(w * h) |-> BLACK]

\* Texture::get_pixel: self.pixels.get(y * width + x), a 0-based index into
\* the flat Vec (px is 1-based).  Only the flat index is bounds-checked; the
\* checked_mul/checked_add give None on overflow, which no index of the model
\* reaches.
get_pixel(px, w, x, y) ==
    IF y * w + x < Len(px) THEN Some(px[y * w + x + 1]) ELSE None

\* the color halfway between two colors, channel by channel
blend(c, d) ==
    [r |-> (c.r + d.r) \div 2, g |-> (c.g + d.g) \div 2,
     b |-> (c.b + d.b) \div 2, a |-> (c.a + d.a) \div 2]

set_pixel_blend(px, w, h, x, y, color) ==
    IF x >= w
        THEN [ret |-> Err("x was out of bounds for texture width"), pixels |-> px]
    ELSE IF y >= h
        THEN [ret |-> Err("y was out of bounds for texture height"), pixels |-> px]
        ELSE [ret |-> Ok,
              pixels |-> [px EXCEPT ![y * w + x + 1] =
                             IF color.a = 255 THEN color ELSE blend(px[y * w + x + 1], color)]]

set_pixel_no_x_check(px, w, h, x, y, color) ==
    IF y >= h
        THEN [ret |-> Err("y was out of bounds for texture height"), pixels |-> px]
        ELSE [ret |-> Ok, pixels |-> [px EXCEPT ![y * w + x + 1] = color]]

set_pixel_column_major(px, w, h, x, y, color) ==
    IF x >= w
        THEN [ret |-> Err("x was out of bounds for texture width"), pixels |-> px]
    ELSE IF y >= h
        THEN [ret |-> Err("y was out of bounds for texture height"), pixels |-> px]
        ELSE [ret |-> Ok, pixels |-> [px EXCEPT ![x * h + y + 1] = color]]

\* Texture::set_pixel: the result and the pixel sequence after the call.  The
\* checked_mul/checked_add of the index cannot fail once x < w and y < h hold
\* for a texture that was allocated.
set_pixel(px, w, h, x, y, color) ==
    IF x >= w
        THEN [ret |-> Err("x was out of bounds for texture width"), pixels |-> px]
    ELSE IF y >= h
        THEN [ret |-> Err("y was out of bounds for texture height"), pixels |-> px]
        ELSE [ret |-> Ok, pixels |-> [px EXCEPT ![y * w + x + 1] = color]]

\* Texture::set_pixel_hex
set_pixel_hex(px, w, h, x, y, hex) == set_pixel(px, w, h, x, y, from_hex(hex))

to_u32_buffer_reversed(px) == [i \in 1..Len(px) |-> to_hex(px[Len(px) - i + 1])]

\* Texture::to_u32_buffer
to_u32_buffer(px) == [i \in 1..Len(px) |-> to_hex(px[i])]

\* ---- PixelNode ----------------------------------------------------------------
PixelNode(x, y, color) == [x |-> x, y |-> y, color |-> color]

pixel_draw_swapped(px, w, h, node) ==
    set_pixel(px, w, h, F64AsUsize(node.y), F64AsUsize(node.x), node.color).pixels

\* PixelNode::draw: unwrap_or(()) drops the result of set_pixel.
pixel_draw(px, w, h, node) ==
    set_pixel(px, w, h, F64AsUsize(node.x), F64AsUsize(node.y), node.color).pixels

\* ---- RectangleNode ----------------------------------------------------------
RectangleNode(x, y, width, height, fill_color) ==
    [x |-> x, y |-> y, width |-> width, height |-> height, fill_color |-> fill_color]

RECURSIVE rect_loop_inclusive(_, _, _, _, _)
rect_loop_inclusive(px, w, h, node, k) ==
    IF k >= (node.width + 1) * node.height THEN px
    ELSE LET dx == k % (node.width + 1)
             dy == k \div (node.width + 1)
             r == set_pixel(px, w, h, F64AsUsize(node.x) + dx, F64AsUsize(node.y) + dy,
                            node.fill_color)
         IN  rect_loop_inclusive(r.pixels, w, h, node, k + 1)

\* RectangleNode::draw, from its k-th iteration on: dy is the outer loop over
\* 0..height, dx the inner one over 0..width; unwrap_or(()) drops the result
\* of set_pixel.  `self.x as usize + dx` stays far below usize::MAX for the
\* coordinates of the model.
RECURSIVE rect_loop(_, _, _, _, _)
rect_loop(px, w, h, node, k) ==
    IF k >= node.width * node.height THEN px
    ELSE LET dx == k % node.width
             dy == k \div node.width
             r == set_pixel(px, w, h, F64AsUsize(node.x) + dx, F64AsUsize(node.y) + dy,
                            node.fill_color)
         IN  rect_loop(r.pixels, w, h, node, k + 1)

\* ---- CircleNode -------------------------------------------------------------
CircleNode(x, y, radius, fill_color) ==
    [x |-> x, y |-> y, radius |-> radius, fill_color |-> fill_color]

\* usize::saturating_sub and usize::saturating_add
usize_saturating_sub(a, b) == IF a < b THEN 0 ELSE a - b
usize_saturating_add(a, b) == IF a + b > UsizeMax THEN UsizeMax ELSE a + b

\* impl PositionComponent for CircleNode; the setters give the node after the call
get_x(node) == usize_saturating_sub(node.x, node.radius)
get_y(node) == usize_saturating_sub(node.y, node.radius)

set_x_center(node, x) == [node EXCEPT !.x = x]

set_x(node, x) == [node EXCEPT !.x = usize_saturating_add(x, node.radius)]
set_y(node, y) == [node EXCEPT !.y = usize_saturating_add(y, node.radius)]

circle_test_strict(dx, dy, radius_squared) == dx * dx + dy * dy < radius_squared

\* the squared-distance test of CircleNode::draw
circle_test(dx, dy, radius_squared) == dx * dx + dy * dy <= radius_squared

\* CircleNode::draw, from the k-th candidate of the bounding square on (rows
\* top_y..=bottom_y outside, columns left_x..=right_x inside).  A set_pixel
\* that returns Err makes expect() panic: the scan stops with the pixels
\* written so far.  checked_sub(..).expect(..) cannot fail for the
\* coordinates of the model and is a plain subtraction here.
RECURSIVE circle_loop(_, _, _, _, _)
circle_loop(px, w, h, node, k) ==
    LET radius == TryIntoIsize(node.radius)
        radius_squared == saturating_pow2(radius)
        center_x == TryIntoIsize(node.x)
        center_y == TryIntoIsize(node.y)
        left_x == saturating_sub(center_x, radius)
        top_y == saturating_sub(center_y, radius)
        right_x == saturating_add(center_x, radius)
        bottom_y == saturating_add(center_y, radius)
        cols == right_x - left_x + 1
        rows == bottom_y - top_y + 1
    IN  IF k >= cols * rows THEN [pixels |-> px, panicked |-> FALSE]
        ELSE LET x == left_x + (k % cols)
                 y == top_y + (k \div cols)
                 dx == x - center_x
                 dy == y - center_y
             IN  IF circle_test(dx, dy, radius_squared)
                 THEN LET r == set_pixel(px, w, h, IsizeAsUsize(x), IsizeAsUsize(y),
                                         node.fill_color)
                      IN  IF r.ret.tag = "Ok"
                          THEN circle_loop(r.pixels, w, h, node, k + 1)
                          ELSE [pixels |-> px, panicked |-> TRUE]
                 ELSE circle_loop(px, w, h, node, k + 1)

\* ---- LineNode ---------------------------------------------------------------
LineNode(x1, y1, x2, y2, color) ==
    [x1 |-> x1, y1 |-> y1, x2 |-> x2, y2 |-> y2, color |-> color]

Abs(v) == IF v < 0 THEN -v ELSE v

line_locals_flipped_sx(node) ==
    LET x1i == UsizeAsIsize(node.x1)
        y1i == UsizeAsIsize(node.y1)
        x2i == UsizeAsIsize(node.x2)
        y2i == UsizeAsIsize(node.y2)
        dx == Abs(x2i - x1i)
        dy == -Abs(y2i - y1i)
    IN  [x2i |-> x2i, y2i |-> y2i, dx |-> dx, dy |-> dy,
         sx |-> IF node.x1 < node.x2 THEN -1 ELSE 1,
         sy |-> IF node.y1 < node.y2 THEN 1 ELSE -1,
         err |-> dx + dy, x |-> x1i, y |-> y1i, color |-> node.color]

line_locals_no_abs(node) ==
    LET x1i == UsizeAsIsize(node.x1)
        y1i == UsizeAsIsize(node.y1)
        x2i == UsizeAsIsize(node.x2)
        y2i == UsizeAsIsize(node.y2)
        dx == x2i - x1i
        dy == -Abs(y2i - y1i)
    IN  [x2i |-> x2i, y2i |-> y2i, dx |-> dx, dy |-> dy,
         sx |-> IF node.x1 < node.x2 THEN 1 ELSE -1,
         sy |-> IF node.y1 < node.y2 THEN 1 ELSE -1,
         err |-> dx + dy, x |-> x1i, y |-> y1i, color |-> node.color]

\* draw_line, up to the loop: the locals of the function.
line_locals(node) ==
    LET x1i == UsizeAsIsize(node.x1)
        y1i == UsizeAsIsize(node.y1)
        x2i == UsizeAsIsize(node.x2)
        y2i == UsizeAsIsize(node.y2)
        dx == Abs(x2i - x1i)
        dy == -Abs(y2i - y1i)
    IN  [x2i |-> x2i, y2i |-> y2i, dx |-> dx, dy |-> dy,
         sx |-> IF node.x1 < node.x2 THEN 1 ELSE -1,
         sy |-> IF node.y1 < node.y2 THEN 1 ELSE -1,
         err |-> dx + dy, x |-> x1i, y |-> y1i, color |-> node.color]

line_advance_one_axis(l) ==
    LET e2 == 2 * l.err
        stepx == e2 >= l.dy
        stepy == ~stepx /\ e2 <= l.dx
    IN  [l EXCEPT !.err = l.err + (IF stepx THEN l.dy ELSE 0) + (IF stepy THEN l.dx ELSE 0),
                  !.x = IF stepx THEN l.x + l.sx ELSE l.x,
                  !.y = IF stepy THEN l.y + l.sy ELSE l.y]

line_advance_keep_err(l) ==
    LET e2 == 2 * l.err
        stepx == e2 >= l.dy
        stepy == e2 <= l.dx
    IN  [l EXCEPT !.x = IF stepx THEN l.x + l.sx ELSE l.x,
                  !.y = IF stepy THEN l.y + l.sy ELSE l.y]

line_advance_double_step(l) ==
    LET e2 == 2 * l.err
        stepx == e2 >= l.dy
        stepy == e2 <= l.dx
    IN  [l EXCEPT !.err = l.err + (IF stepx THEN l.dy ELSE 0) + (IF stepy THEN l.dx ELSE 0),
                  !.x = IF stepx THEN l.x + l.sx ELSE l.x,
                  !.y = IF stepy THEN l.y + l.sy + l.sy ELSE l.y]

\* draw_line, the end of one iteration of the loop: e2, then the two steps.
line_advance(l) ==
    LET e2 == 2 * l.err
        stepx == e2 >= l.dy
        stepy == e2 <= l.dx
    IN  [l EXCEPT !.err = l.err + (IF stepx THEN l.dy ELSE 0) + (IF stepy THEN l.dx ELSE 0),
                  !.x = IF stepx THEN l.x + l.sx ELSE l.x,
                  !.y = IF stepy THEN l.y + l.sy ELSE l.y]

\* draw_line run to its end on a texture that holds every point it visits: the
\* set of points its loop plots from the locals l on, at most n iterations
\* further.
RECURSIVE line_points_from(_, _)
line_points_from(l, n) ==
    {<<l.x, l.y>>} \cup
        IF (l.x = l.x2i /\ l.y = l.y2i) \/ n = 0
        THEN {}
        ELSE line_points_from(line_advance(l), n - 1)

\* ---- inputs drawn by the callers ----------------------------------------------
Dims == 0..MaxDim
Coords == 0..MaxCoord
F64Coords == -1..MaxCoord
Sizes == 0..MaxSize
Radii == 0..MaxRadius
BLUE_HALF == rgba(0, 0, 255, 128)
Colors == {RED, BLUE_HALF}
ShapeColors == {GREEN}
\* 0x00FF00, and 0x1FF0000 whose top byte lies above the 24 bits of a color
HexInputs == {65280, 33488896}
Channels == {0, 1, 127, 128, 255}
\* u32 values for from_hex, with and without bits above the low 24; the top
\* byte stays below 128 so that every value is an integer TLC can hold
TopBytes == {0, 1, 127}
HexWords == {t * 16777216 + r * 65536 + g * 256 + b :
                 t \in TopBytes, r \in Channels, g \in Channels, b \in Channels}

\* ---- the record of the writes ----------------------------------------------------
\* wr after a set_pixel(x, y, color) that returned ret: an Ok call replaces the
\* entry of (x, y), an Err call leaves the record as it is
note_write(wr, ret, x, y, color) ==
    IF ret.tag = "Ok"
    THEN {t \in wr : ~(t[1] = x /\ t[2] = y)} \cup {<<x, y, color>>}
    ELSE wr

\* the set_pixel call of PixelNode::draw
pixel_written(wr, px, w, h, node) ==
    note_write(wr, set_pixel(px, w, h, F64AsUsize(node.x), F64AsUsize(node.y), node.color).ret,
               F64AsUsize(node.x), F64AsUsize(node.y), node.color)

\* the set_pixel calls of RectangleNode::draw from the k-th target on
RECURSIVE rect_written(_, _, _, _, _, _)
rect_written(wr, px, w, h, node, k) ==
    IF k >= node.width * node.height THEN wr
    ELSE LET x == F64AsUsize(node.x) + (k % node.width)
             y == F64AsUsize(node.y) + (k \div node.width)
             r == set_pixel(px, w, h, x, y, node.fill_color)
         IN  rect_written(note_write(wr, r.ret, x, y, node.fill_color),
                          r.pixels, w, h, node, k + 1)

\* the set_pixel calls of CircleNode::draw from the k-th candidate on, up to
\* the first that returns Err
RECURSIVE circle_written(_, _, _, _, _, _)
circle_written(wr, px, w, h, node, k) ==
    LET radius == TryIntoIsize(node.radius)
        radius_squared == saturating_pow2(radius)
        center_x == TryIntoIsize(node.x)
        center_y == TryIntoIsize(node.y)
        left_x == saturating_sub(center_x, radius)
        top_y == saturating_sub(center_y, radius)
        right_x == saturating_add(center_x, radius)
        bottom_y == saturating_add(center_y, radius)
        cols == right_x - left_x + 1
        rows == bottom_y - top_y + 1
    IN  IF k >= cols * rows THEN wr
        ELSE LET x == left_x + (k % cols)
                 y == top_y + (k \div cols)
             IN  IF circle_test(x - center_x, y - center_y, radius_squared)
                 THEN LET r == set_pixel(px, w, h, IsizeAsUsize(x), IsizeAsUsize(y),
                                         node.fill_color)
                      IN  IF r.ret.tag = "Ok"
                          THEN circle_written(
                                   note_write(wr, r.ret, IsizeAsUsize(x), IsizeAsUsize(y),
                                              node.fill_color),
                                   r.pixels, w, h, node, k + 1)
                          ELSE wr
                 ELSE circle_written(wr, px, w, h, node, k + 1)

\* ---- state ----------------------------------------------------------------------
VARIABLES
    width, height, pixels,  \* the fields of the Texture
    created,                \* the arguments Texture::new was called with
    pc,                     \* "ready" | "returned" | "line" | "panic" | "off"
    nops,                   \* calls made on the texture so far
    old,                    \* the texture when the last call began
    call,                   \* the last call and its arguments
    ret,                    \* what the last call returned
    loc,                    \* the locals of draw_line while its loop runs
    path,                   \* the points draw_line has plotted in this call
    written,                \* <<x, y, color>> of the last set_pixel(x, y, color) that
                            \* returned Ok, for every (x, y) that had one
    circle,                 \* a CircleNode whose position accessors are called
    color_in, hex, color_out, cpc,  \* the Color conversions: input, packed, decoded
    hex_out                         \* a decoded value packed again

vars == <<width, height, pixels, created, pc, nops, old, call, ret, loc, path,
          written, circle, color_in, hex, color_out, cpc, hex_out>>

texvars == <<width, height, pixels, created, pc, nops, old, call, ret, loc, path,
             written>>
colvars == <<color_in, hex, color_out, cpc, hex_out>>

Snapshot == [pixels |-> pixels, width |-> width, height |-> height]

NoCircle == CircleNode(0, 0, 0, BLACK)

NoLocals == [x2i |-> 0, y2i |-> 0, dx |-> 0, dy |-> 0, sx |-> 0, sy |-> 0,
             err |-> 0, x |-> 0, y |-> 0, color |-> BLACK]

\* Texture::new(w, h)
Init ==
    /\ width \in Dims
    /\ height \in Dims
    /\ pixels = new_pixels(width, height)
    /\ created = [width |-> width, height |-> height]
    /\ pc = "ready"
    /\ nops = 0
    /\ old = [pixels |-> pixels, width |-> width, height |-> height]
    /\ call = [name |-> "new"]
    /\ ret = Unit
    /\ loc = NoLocals
    /\ path = << >>
    /\ written = {}
    /\ circle = NoCircle
    /\ color_in = BLACK /\ hex = 0 /\ color_out = BLACK /\ cpc = "off" /\ hex_out = 0

Begin ==
    /\ pc = "ready"
    /\ nops < MaxOps
    /\ nops' = nops + 1
    /\ old' = Snapshot
    /\ UNCHANGED <<width, height, created, circle, colvars>>

\* texture.set_pixel(x, y, color)
SetPixel ==
    \E x \in Coords, y \in Coords, color \in Colors :
        LET r == set_pixel(pixels, width, height, x, y, color)
        IN  /\ Begin
            /\ call' = [name |-> "set_pixel", x |-> x, y |-> y, color |-> color]
            /\ pixels' = r.pixels
            /\ written' = note_write(written, r.ret, x, y, color)
            /\ ret' = r.ret
            /\ pc' = "returned"
            /\ UNCHANGED <<loc, path>>

\* texture.set_pixel_hex(x, y, color)
SetPixelHex ==
    \E x \in Coords, y \in Coords, h \in HexInputs :
        LET r == set_pixel_hex(pixels, width, height, x, y, h)
        IN  /\ Begin
            /\ call' = [name |-> "set_pixel_hex", x |-> x, y |-> y, color |-> h]
            /\ pixels' = r.pixels
            /\ written' = note_write(written, r.ret, x, y, from_hex(h))
            /\ ret' = r.ret
            /\ pc' = "returned"
            /\ UNCHANGED <<loc, path>>

\* texture.get_pixel(x, y)
GetPixel ==
    \E x \in Coords, y \in Coords :
        /\ Begin
        /\ call' = [name |-> "get_pixel", x |-> x, y |-> y]
        /\ ret' = get_pixel(pixels, width, x, y)
        /\ pc' = "returned"
        /\ UNCHANGED <<pixels, loc, path, written>>

\* texture.to_u32_buffer()
ToU32Buffer ==
    /\ Begin
    /\ call' = [name |-> "to_u32_buffer"]
    /\ ret' = [tag |-> "Vec", val |-> to_u32_buffer(pixels)]
    /\ pc' = "returned"
    /\ UNCHANGED <<pixels, loc, path, written>>

\* RectangleNode::draw(texture), also reached through texture.add(&node)
RectangleDraw ==
    \E x \in F64Coords, y \in F64Coords, rw \in Sizes, rh \in Sizes, c \in ShapeColors :
        LET node == RectangleNode(x, y, rw, rh, c)
        IN  /\ Begin
            /\ call' = [name |-> "rectangle", node |-> node]
            /\ pixels' = rect_loop(pixels, width, height, node, 0)
            /\ written' = rect_written(written, pixels, width, height, node, 0)
            /\ ret' = Unit
            /\ pc' = "returned"
            /\ UNCHANGED <<loc, path>>

\* PixelNode::draw(texture), also reached through texture.add(&node)
PixelDraw ==
    \E x \in F64Coords, y \in F64Coords, c \in ShapeColors :
        LET node == PixelNode(x, y, c)
        IN  /\ Begin
            /\ call' = [name |-> "pixel", node |-> node]
            /\ pixels' = pixel_draw(pixels, width, height, node)
            /\ written' = pixel_written(written, pixels, width, height, node)
            /\ ret' = Unit
            /\ pc' = "returned"
            /\ UNCHANGED <<loc, path>>

\* CircleNode::draw(texture), also reached through texture.add(&node)
CircleDraw ==
    \E x \in Coords, y \in Coords, radius \in Radii, c \in ShapeColors :
        LET node == CircleNode(x, y, radius, c)
            r == circle_loop(pixels, width, height, node, 0)
        IN  /\ Begin
            /\ call' = [name |-> "circle", node |-> node]
            /\ pixels' = r.pixels
            /\ written' = circle_written(written, pixels, width, height, node, 0)
            /\ ret' = IF r.panicked THEN Panic ELSE Unit
            /\ pc' = IF r.panicked THEN "panic" ELSE "returned"
            /\ UNCHANGED <<loc, path>>

\* LineNode::draw(texture): draw_line up to its loop
LineDraw ==
    \E x1 \in Coords, y1 \in Coords, x2 \in Coords, y2 \in Coords, c \in ShapeColors :
        LET node == LineNode(x1, y1, x2, y2, c)
        IN  /\ Begin
            /\ call' = [name |-> "line", node |-> node]
            /\ loc' = line_locals(node)
            /\ ret' = Unit
            /\ pc' = "line"
            /\ path' = << >>
            /\ UNCHANGED <<pixels, written>>

\* one iteration of the loop of draw_line: plot (unwrap panics on Err), then
\* break at the end point or advance
LineStep ==
    /\ pc = "line"
    /\ LET plot == loc.x >= 0 /\ loc.y >= 0
           r == set_pixel(pixels, width, height, IsizeAsUsize(loc.x), IsizeAsUsize(loc.y),
                          loc.color)
       IN  IF plot /\ r.ret.tag # "Ok"
           THEN /\ pc' = "panic"
                /\ ret' = Panic
                /\ UNCHANGED <<pixels, loc, path, written>>
           ELSE /\ pixels' = IF plot THEN r.pixels ELSE pixels
                /\ path' = IF plot
                           THEN Append(path, <<IsizeAsUsize(loc.x), IsizeAsUsize(loc.y)>>)
                           ELSE path
                /\ written' = IF plot
                              THEN note_write(written, r.ret, IsizeAsUsize(loc.x),
                                              IsizeAsUsize(loc.y), loc.color)
                              ELSE written
                /\ IF loc.x = loc.x2i /\ loc.y = loc.y2i
                   THEN pc' = "returned" /\ UNCHANGED loc
                   ELSE pc' = "line" /\ loc' = line_advance(loc)
                /\ UNCHANGED ret
    /\ UNCHANGED <<width, height, created, nops, old, call, circle, colvars>>

\* the caller takes the returned value and goes on to its next statement
Return ==
    /\ pc = "returned"
    /\ pc' = "ready"
    /\ call' = [name |-> "idle"]
    /\ ret' = Unit
    /\ old' = Snapshot
    /\ loc' = NoLocals
    /\ path' = << >>
    /\ UNCHANGED <<width, height, pixels, created, nops, written, circle, colvars>>

Next ==
    \/ SetPixel
    \/ SetPixelHex
    \/ GetPixel
    \/ ToU32Buffer
    \/ PixelDraw
    \/ RectangleDraw
    \/ CircleDraw
    \/ LineDraw
    \/ LineStep
    \/ Return

Spec == Init /\ [][Next]_vars

\* ---- lines on a texture that holds every end point ---------------------------------
\* Texture::new(MaxCoord + 1, MaxCoord + 1): every LineNode of the model has
\* both end points in this texture.
InitLine ==
    /\ width = MaxCoord + 1
    /\ height = MaxCoord + 1
    /\ pixels = new_pixels(width, height)
    /\ created = [width |-> width, height |-> height]
    /\ pc = "ready"
    /\ nops = 0
    /\ old = [pixels |-> pixels, width |-> width, height |-> height]
    /\ call = [name |-> "new"]
    /\ ret = Unit
    /\ loc = NoLocals
    /\ path = << >>
    /\ written = {}
    /\ circle = NoCircle
    /\ color_in = BLACK /\ hex = 0 /\ color_out = BLACK /\ cpc = "off" /\ hex_out = 0

NextLine == LineDraw \/ LineStep \/ Return

\* draw_line runs on one thread and nothing suspends it: a loop that can make
\* its next iteration makes it.
SpecLine == InitLine /\ [][NextLine]_vars /\ WF_vars(LineStep)

\* ---- the position accessors of a CircleNode as a machine of their own ---------
\* usize values for the center, the radius and the arguments of the setters
Positions == {0, 1, 2, UsizeMax - 1, UsizeMax}
CircleRadii == {0, 1, 2, UsizeMax}

\* the last call, for the call made after it
LastCall == [name |-> call.name, v |-> call.v]

\* CircleNode::new(x, y, radius, fill_color)
InitCircle ==
    /\ \E x \in Positions, y \in Positions, radius \in CircleRadii :
           circle = CircleNode(x, y, radius, GREEN)
    /\ call = [name |-> "new", v |-> 0, after |-> [name |-> "none", v |-> 0]]
    /\ ret = Unit
    /\ width = 0 /\ height = 0 /\ pixels = new_pixels(0, 0)
    /\ created = [width |-> 0, height |-> 0]
    /\ pc = "off" /\ nops = 0
    /\ old = [pixels |-> new_pixels(0, 0), width |-> 0, height |-> 0]
    /\ loc = NoLocals /\ path = << >> /\ written = {}
    /\ color_in = BLACK /\ hex = 0 /\ color_out = BLACK /\ cpc = "off" /\ hex_out = 0

posvars == <<width, height, pixels, created, pc, nops, old, loc, path, written, colvars>>

\* circle.set_x(v)
SetX ==
    \E v \in Positions :
        /\ circle' = set_x(circle, v)
        /\ call' = [name |-> "set_x", v |-> v, after |-> LastCall]
        /\ ret' = Unit
        /\ UNCHANGED posvars

\* circle.set_y(v)
SetY ==
    \E v \in Positions :
        /\ circle' = set_y(circle, v)
        /\ call' = [name |-> "set_y", v |-> v, after |-> LastCall]
        /\ ret' = Unit
        /\ UNCHANGED posvars

\* circle.get_x()
GetX ==
    /\ call' = [name |-> "get_x", v |-> 0, after |-> LastCall]
    /\ ret' = [tag |-> "usize", val |-> get_x(circle)]
    /\ UNCHANGED <<circle, posvars>>

\* circle.get_y()
GetY ==
    /\ call' = [name |-> "get_y", v |-> 0, after |-> LastCall]
    /\ ret' = [tag |-> "usize", val |-> get_y(circle)]
    /\ UNCHANGED <<circle, posvars>>

NextCircle == SetX \/ SetY \/ GetX \/ GetY

SpecCircle == InitCircle /\ [][NextCircle]_vars

\* ---- the Color conversions as a machine of their own ----------------------------
InitColor ==
    /\ \/ /\ cpc = "start"
          /\ color_in \in [r : Channels, g : Channels, b : Channels, a : Channels]
          /\ hex = 0
       \/ /\ cpc = "word"
          /\ color_in = BLACK
          /\ hex \in HexWords
    /\ color_out = BLACK /\ hex_out = 0
    /\ width = 0 /\ height = 0 /\ pixels = new_pixels(0, 0)
    /\ created = [width |-> 0, height |-> 0]
    /\ pc = "off" /\ nops = 0
    /\ old = [pixels |-> new_pixels(0, 0), width |-> 0, height |-> 0]
    /\ call = [name |-> "idle"] /\ ret = Unit /\ loc = NoLocals
    /\ path = << >> /\ written = {} /\ circle = NoCircle

\* hex = color_in.to_hex()
ToHex ==
    /\ cpc = "start"
    /\ hex' = to_hex(color_in)
    /\ cpc' = "packed"
    /\ UNCHANGED <<color_in, color_out, hex_out, texvars, circle>>

\* color_out = Color::from_hex(hex)
FromHex ==
    /\ cpc = "packed"
    /\ color_out' = from_hex(hex)
    /\ cpc' = "decoded"
    /\ UNCHANGED <<color_in, hex, hex_out, texvars, circle>>

\* color_out = Color::from_hex(hex), hex any value of the caller's
FromHexWord ==
    /\ cpc = "word"
    /\ color_out' = from_hex(hex)
    /\ cpc' = "unpacked"
    /\ UNCHANGED <<color_in, hex, hex_out, texvars, circle>>

\* hex_out = color_out.to_hex()
ToHexWord ==
    /\ cpc = "unpacked"
    /\ hex_out' = to_hex(color_out)
    /\ cpc' = "repacked"
    /\ UNCHANGED <<color_in, hex, color_out, texvars, circle>>

NextColor == ToHex \/ FromHex \/ FromHexWord \/ ToHexWord

SpecColor == InitColor /\ [][NextColor]_vars

\* ---- the claims ---------------------------------------------------------------------
\* the pixel at (x, y) of a pixel sequence of row length w, x < w
At(px, w, x, y) == px[y * w + x + 1]

InBounds(x, y) == x < width /\ y < height

\* C1: set_pixel(x, y, c) with x < width and y < height returns Ok, and a
\* get_pixel(x, y) made right after it returns Some(c).
C1_SetThenGet ==
    (call.name = "set_pixel" /\ InBounds(call.x, call.y))
        => /\ ret = Ok
           /\ get_pixel(pixels, width, call.x, call.y) = Some(call.color)

C1_Witness ==
    /\ call.name = "set_pixel" /\ ret = Ok
    /\ call.x = 1 /\ call.y = 2 /\ width = 2 /\ height = 3
    /\ call.color = BLUE_HALF

\* C2: set_pixel(x, y, c) with x >= width or y >= height returns an error and
\* leaves every pixel, the width and the height as they were.
C2_SetOutOfBounds ==
    (call.name = "set_pixel" /\ ~InBounds(call.x, call.y))
        => /\ ret.tag = "Err"
           /\ pixels = old.pixels
           /\ width = old.width
           /\ height = old.height

C2_Witness ==
    /\ call.name = "set_pixel" /\ ret.tag = "Err"
    /\ call.x >= width /\ call.y < height
    /\ call.y * width + call.x < Len(pixels)
    /\ \E i \in 1..Len(pixels) : pixels[i] # BLACK

\* C3: get_pixel(x, y) with x >= width or y >= height returns None, also when
\* y*width + x is an index of the pixel sequence.
C3_GetOutOfBoundsIsNone ==
    (call.name = "get_pixel" /\ ~InBounds(call.x, call.y)) => ret = None

\* C4: in every state reached from Texture::new(w, h), whatever calls were made
\* and however they ended, the pixel sequence has length w*h and the width and
\* the height are w and h.
C4_SizeInvariant ==
    /\ Len(pixels) = created.width * created.height
    /\ width = created.width
    /\ height = created.height

C4_Witness ==
    /\ nops >= 2
    /\ ret.tag \in {"Err", "Panic"}
    /\ width = 2 /\ height = 3
    /\ \E i \in 1..Len(pixels) : pixels[i] # BLACK

\* C5: right after Texture::new(w, h) every get_pixel(x, y) with x < w, y < h is
\* black (0,0,0,255), and to_u32_buffer() has length w*h and holds only 0.
C5_FreshTextureBlack ==
    /\ call.name = "new" =>
           \A x \in 0..(width - 1), y \in 0..(height - 1) :
               get_pixel(pixels, width, x, y) = Some(rgba(0, 0, 0, 255))
    /\ (call.name = "to_u32_buffer" /\ nops = 1) =>
           /\ Len(ret.val) = created.width * created.height
           /\ \A i \in 1..Len(ret.val) : ret.val[i] = 0

C5_Witness ==
    /\ call.name = "to_u32_buffer" /\ nops = 1
    /\ width = 2 /\ height = 3 /\ Len(ret.val) = 6

\* C6: Color::from_hex(c.to_hex()) has the r, g and b of c, and a = 255.
C6_HexRoundTrip ==
    cpc = "decoded" =>
        /\ color_out.r = color_in.r
        /\ color_out.g = color_in.g
        /\ color_out.b = color_in.b
        /\ color_out.a = 255

C6_Witness ==
    /\ cpc = "decoded"
    /\ color_in = rgba(255, 1, 127, 128)
    /\ color_out = rgba(255, 1, 127, 255)

\* (px, py) lies in the rectangle of the node
InRectangle(node, px, py) ==
    /\ node.x <= px /\ px < node.x + node.width
    /\ node.y <= py /\ py < node.y + node.height

\* C7: RectangleNode.draw with a top-left (x, y) >= (0, 0) sets exactly the
\* pixels of the texture inside [x, x+rw) x [y, y+rh) to the fill color, leaves
\* every other pixel as it was, and ends without error, also when the rectangle
\* runs over the right or the bottom edge.
C7_RectangleExact ==
    (call.name = "rectangle" /\ call.node.x >= 0 /\ call.node.y >= 0)
        => /\ pc = "returned" /\ ret = Unit
           /\ Len(pixels) = Len(old.pixels)
           /\ \A px \in 0..(width - 1), py \in 0..(height - 1) :
                  At(pixels, width, px, py) =
                      IF InRectangle(call.node, px, py)
                      THEN call.node.fill_color
                      ELSE At(old.pixels, width, px, py)

C7_Witness ==
    /\ call.name = "rectangle" /\ pc = "returned"
    /\ width = 3 /\ height = 3
    /\ call.node.x = 2 /\ call.node.y = 1
    /\ call.node.width = 2 /\ call.node.height = 2
    /\ At(pixels, width, 2, 1) = call.node.fill_color
    /\ At(pixels, width, 2, 2) = call.node.fill_color
    /\ At(old.pixels, width, 1, 1) = RED /\ At(pixels, width, 1, 1) = RED

\* the bounding square of the circle lies inside the texture
CircleInside(node) ==
    /\ node.x - node.radius >= 0 /\ node.x + node.radius < width
    /\ node.y - node.radius >= 0 /\ node.y + node.radius < height

InCircle(node, px, py) ==
    (px - node.x) * (px - node.x) + (py - node.y) * (py - node.y)
        <= node.radius * node.radius

\* C8: CircleNode.draw whose bounding square lies inside the texture sets
\* exactly the pixels with (px-cx)^2 + (py-cy)^2 <= r^2 to the fill color and
\* leaves every other pixel as it was.
C8_CircleExact ==
    (call.name = "circle" /\ CircleInside(call.node))
        => /\ pc = "returned" /\ ret = Unit
           /\ Len(pixels) = Len(old.pixels)
           /\ \A px \in 0..(width - 1), py \in 0..(height - 1) :
                  At(pixels, width, px, py) =
                      IF InCircle(call.node, px, py)
                      THEN call.node.fill_color
                      ELSE At(old.pixels, width, px, py)

C8_Witness ==
    /\ call.name = "circle" /\ pc = "returned"
    /\ call.node.x = 1 /\ call.node.y = 1 /\ call.node.radius = 1
    /\ width = 3 /\ height = 3
    /\ At(pixels, width, 1, 1) = call.node.fill_color
    /\ At(pixels, width, 2, 1) = call.node.fill_color
    /\ At(pixels, width, 1, 0) = call.node.fill_color
    /\ At(old.pixels, width, 2, 2) = RED /\ At(pixels, width, 2, 2) = RED
    /\ At(pixels, width, 0, 0) = BLACK

\* the center of the circle lies in the texture, its bounding square does not
CirclePartlyInside(node) == InBounds(node.x, node.y) /\ ~CircleInside(node)

\* C9: CircleNode.draw on a texture the circle only partly overlaps ends
\* without error or panic, skips the candidates outside the texture and sets
\* the pixels of the texture that pass the squared-distance test.
C9_CircleClipped ==
    (call.name = "circle" /\ CirclePartlyInside(call.node))
        => /\ ret.tag # "Panic"
           /\ \A px \in 0..(width - 1), py \in 0..(height - 1) :
                  At(pixels, width, px, py) =
                      IF InCircle(call.node, px, py)
                      THEN call.node.fill_color
                      ELSE At(old.pixels, width, px, py)

\* the line starts in the texture and ends outside of it
LineEndOutside(node) == InBounds(node.x1, node.y1) /\ ~InBounds(node.x2, node.y2)

\* C10: LineNode.draw with an end point outside the texture (x >= width or
\* y >= height) ends without error or panic: the points of the path outside
\* the texture are skipped.
C10_LineClipped ==
    (call.name = "line" /\ LineEndOutside(call.node)) => ret.tag # "Panic"

\* ---- the claims about draw_line -----------------------------------------------------
Range(seq) == {seq[i] : i \in 1..Len(seq)}
Max(a, b) == IF a >= b THEN a ELSE b
Min(a, b) == IF a <= b THEN a ELSE b

\* both end points of the line lie in the texture
LineInside(node) == InBounds(node.x1, node.y1) /\ InBounds(node.x2, node.y2)

\* the last call was a LineNode draw and it has returned
LineDone == call.name = "line" /\ pc = "returned"

\* the longer of the two extents of the line
MajorLen(node) == Max(Abs(node.x2 - node.x1), Abs(node.y2 - node.y1))

\* C11: a LineNode draw with both end points in the texture sets exactly
\* max(|x2-x1|, |y2-y1|) + 1 pixels, both end points among them, one pixel for
\* each coordinate along the major axis, and leaves the other pixels as they
\* were; a horizontal line sets the run between its end points and a diagonal
\* one the diagonal.
C11_LineExact ==
    (LineDone /\ LineInside(call.node)) =>
        LET n == call.node
            pts == Range(path)
            adx == Abs(n.x2 - n.x1)
            ady == Abs(n.y2 - n.y1)
            sx == IF n.x1 < n.x2 THEN 1 ELSE -1
            sy == IF n.y1 < n.y2 THEN 1 ELSE -1
        IN  /\ Cardinality(pts) = Max(adx, ady) + 1
            /\ <<n.x1, n.y1>> \in pts
            /\ <<n.x2, n.y2>> \in pts
            /\ adx >= ady =>
                   \A cx \in Min(n.x1, n.x2)..Max(n.x1, n.x2) :
                       Cardinality({q \in pts : q[1] = cx}) = 1
            /\ ady >= adx =>
                   \A cy \in Min(n.y1, n.y2)..Max(n.y1, n.y2) :
                       Cardinality({q \in pts : q[2] = cy}) = 1
            /\ ady = 0 => pts = {<<cx, n.y1>> : cx \in Min(n.x1, n.x2)..Max(n.x1, n.x2)}
            /\ adx = ady => pts = {<<n.x1 + i * sx, n.y1 + i * sy>> : i \in 0..adx}
            /\ \A px \in 0..(width - 1), py \in 0..(height - 1) :
                   At(pixels, width, px, py) =
                       IF <<px, py>> \in pts THEN n.color ELSE At(old.pixels, width, px, py)

C11_Witness ==
    /\ LineDone
    /\ call.node.x1 = 0 /\ call.node.y1 = 0 /\ call.node.x2 = 3 /\ call.node.y2 = 1
    /\ path = << <<0, 0>>, <<1, 0>>, <<2, 1>>, <<3, 1>> >>
    /\ At(old.pixels, width, 0, 3) = GREEN /\ At(pixels, width, 0, 3) = GREEN
    /\ At(pixels, width, 1, 1) = BLACK

\* C12: any two points draw_line plots one after the other differ, and differ
\* by at most 1 in x and at most 1 in y.
C12_LineConnected ==
    \A i \in 1..(Len(path) - 1) :
        /\ path[i] # path[i + 1]
        /\ Abs(path[i + 1][1] - path[i][1]) <= 1
        /\ Abs(path[i + 1][2] - path[i][2]) <= 1

C12_Witness ==
    /\ pc = "line"
    /\ call.node.x1 = 3 /\ call.node.y1 = 0 /\ call.node.x2 = 1 /\ call.node.y2 = 3
    /\ Len(path) = 3

\* C13: for end points in the texture the loop of draw_line reaches x = x2 and
\* y = y2 and ends, and it makes at most max(|x2-x1|, |y2-y1|) iterations after
\* the one that plots the first point.
C13_LineTerminates ==
    /\ [](call.name = "line" => Len(path) <= MajorLen(call.node) + 1)
    /\ (pc = "line") ~> (pc = "returned" /\ loc.x = loc.x2i /\ loc.y = loc.y2i)

C13_Witness ==
    /\ LineDone
    /\ call.node.x1 = 2 /\ call.node.y1 = 3 /\ call.node.x2 = 0 /\ call.node.y2 = 0
    /\ loc.x = 0 /\ loc.y = 0
    /\ Len(path) = 4

\* C19: in draw_line with both end points in the texture every point the loop
\* visits lies between the end points in x and in y, so no coordinate is
\* negative, every set_pixel succeeds and unwrap does not panic.
C19_LineInBox ==
    (call.name = "line" /\ LineInside(call.node)) =>
        LET n == call.node
        IN  /\ Min(n.x1, n.x2) <= loc.x /\ loc.x <= Max(n.x1, n.x2)
            /\ Min(n.y1, n.y2) <= loc.y /\ loc.y <= Max(n.y1, n.y2)
            /\ loc.x >= 0 /\ loc.y >= 0
            /\ pc # "panic" /\ ret.tag # "Panic"
            /\ \A i \in 1..Len(path) : InBounds(path[i][1], path[i][2])

C19_Witness ==
    /\ pc = "line"
    /\ call.node.x1 = 3 /\ call.node.y1 = 2 /\ call.node.x2 = 0 /\ call.node.y2 = 0
    /\ loc.x = 1 /\ loc.y = 1
    /\ Len(path) = 2

\* the points draw_line sets for the line drawn the other way round
ReversePoints(node) ==
    line_points_from(line_locals(LineNode(node.x2, node.y2, node.x1, node.y1, node.color)),
                     2 * MaxCoord + 2)

\* C20: a LineNode from (x1, y1) to (x2, y2) sets the same pixels as the
\* LineNode from (x2, y2) to (x1, y1).
C20_LineSymmetric ==
    (LineDone /\ LineInside(call.node)) => Range(path) = ReversePoints(call.node)

\* C20, amended: the two lines set the same number of pixels, the pixels of
\* the one are those of the other mirrored through the middle of the end
\* points, and they are the same pixels when the line is horizontal, vertical
\* or diagonal.
C20_LineMirrored ==
    (LineDone /\ LineInside(call.node)) =>
        LET n == call.node
            fwd == Range(path)
            rev == ReversePoints(n)
        IN  /\ Cardinality(fwd) = Cardinality(rev)
            /\ fwd = {<<n.x1 + n.x2 - q[1], n.y1 + n.y2 - q[2]>> : q \in rev}
            /\ (n.x1 = n.x2 \/ n.y1 = n.y2
                    \/ Abs(n.x2 - n.x1) = Abs(n.y2 - n.y1)) => fwd = rev

C20_Witness ==
    /\ LineDone
    /\ call.node.x1 = 0 /\ call.node.y1 = 0 /\ call.node.x2 = 2 /\ call.node.y2 = 1
    /\ <<1, 1>> \in Range(path)
    /\ <<1, 0>> \in ReversePoints(call.node)

\* ---- the claims about PixelNode, to_u32_buffer and negative coordinates ---------------
\* C14: PixelNode.draw with x >= 0 and y >= 0 sets the pixel (x, y) to the
\* color of the node when (x, y) is in the texture and sets no pixel when it is
\* not; either way it returns without error and every other pixel is as it was.
C14_PixelExact ==
    (call.name = "pixel" /\ call.node.x >= 0 /\ call.node.y >= 0)
        => /\ pc = "returned" /\ ret = Unit
           /\ Len(pixels) = Len(old.pixels)
           /\ \A px \in 0..(width - 1), py \in 0..(height - 1) :
                  At(pixels, width, px, py) =
                      IF px = call.node.x /\ py = call.node.y
                      THEN call.node.color
                      ELSE At(old.pixels, width, px, py)
           /\ ~InBounds(call.node.x, call.node.y) => pixels = old.pixels

C14_Witness ==
    /\ call.name = "pixel" /\ pc = "returned"
    /\ width = 3 /\ height = 2
    /\ call.node.x = 2 /\ call.node.y = 1
    /\ At(old.pixels, width, 2, 1) = BLACK
    /\ At(pixels, width, 2, 1) = GREEN
    /\ At(pixels, width, 1, 1) = BLACK
    /\ At(old.pixels, width, 0, 0) = RED /\ At(pixels, width, 0, 0) = RED

\* C15: to_u32_buffer returns width*height entries, the entry at y*width + x
\* being to_hex of the pixel (x, y), that is r*65536 + g*256 + b without the
\* alpha, and it leaves the pixels of the texture as they were.
C15_BufferRowMajor ==
    (call.name = "to_u32_buffer")
        => /\ pc = "returned" /\ ret.tag = "Vec"
           /\ Len(ret.val) = width * height
           /\ \A px \in 0..(width - 1), py \in 0..(height - 1) :
                  LET c == get_pixel(pixels, width, px, py)
                  IN  /\ c.tag = "Some"
                      /\ ret.val[py * width + px + 1] = to_hex(c.val)
                      /\ ret.val[py * width + px + 1]
                             = c.val.r * 65536 + c.val.g * 256 + c.val.b
           /\ pixels = old.pixels

C15_Witness ==
    /\ call.name = "to_u32_buffer" /\ pc = "returned"
    /\ width = 2 /\ height = 3
    /\ At(pixels, width, 1, 0) = BLUE_HALF
    /\ ret.val = <<0, 255, 0, 0, 0, 0>>

\* C17: PixelNode.draw and RectangleNode.draw with a negative x or y write no
\* pixel for a target whose coordinate is negative: the pixel node writes
\* nothing and the rectangle sets only the part of [x, x+rw) x [y, y+rh) that
\* lies in the texture, without moving it to column or row 0.
C17_NegativeDropped ==
    /\ (call.name = "pixel" /\ (call.node.x < 0 \/ call.node.y < 0))
           => pixels = old.pixels
    /\ (call.name = "rectangle" /\ (call.node.x < 0 \/ call.node.y < 0))
           => \A px \in 0..(width - 1), py \in 0..(height - 1) :
                  At(pixels, width, px, py) =
                      IF InRectangle(call.node, px, py)
                      THEN call.node.fill_color
                      ELSE At(old.pixels, width, px, py)

\* ---- the claims about the Color conversions on any u32 ---------------------------------
\* C16: Color::from_hex(h) gives r = (h / 65536) mod 256, g = (h / 256) mod 256,
\* b = h mod 256 and a = 255 for any h, also above 0xFFFFFF, so that
\* from_hex(h).to_hex() is h mod 2^24; and c.to_hex() is r*65536 + g*256 + b.
C16_HexAnyWord ==
    /\ cpc \in {"unpacked", "repacked"} =>
           color_out = [r |-> (hex \div 65536) % 256, g |-> (hex \div 256) % 256,
                        b |-> hex % 256, a |-> 255]
    /\ cpc = "repacked" => hex_out = hex % 16777216
    /\ cpc = "packed" => hex = color_in.r * 65536 + color_in.g * 256 + color_in.b

C16_Witness ==
    /\ cpc = "repacked"
    /\ hex = 2130837376
    /\ color_out = rgba(1, 255, 128, 255)
    /\ hex_out = 130944

\* ---- the claims about the position accessors of CircleNode ---------------------------
\* get_x() right after set_x(v) returns v and get_y() right after set_y(v)
\* returns v, when v + radius is a usize
CircleRoundTrip ==
    /\ (call.name = "get_x" /\ call.after.name = "set_x"
            /\ call.after.v + circle.radius <= UsizeMax) => ret.val = call.after.v
    /\ (call.name = "get_y" /\ call.after.name = "set_y"
            /\ call.after.v + circle.radius <= UsizeMax) => ret.val = call.after.v

\* C18: on a CircleNode, get_x() right after set_x(v) returns v, and the same
\* for y, when v + radius is representable; get_x() and get_y() return the
\* center minus the radius.
C18_CornerAccessors ==
    /\ CircleRoundTrip
    /\ call.name = "get_x" => ret.val = circle.x - circle.radius
    /\ call.name = "get_y" => ret.val = circle.y - circle.radius

\* C18, amended: the round trip as above; get_x() and get_y() return the center
\* minus the radius when the center is at least the radius, and 0 when it is
\* less.
C18_CornerSaturating ==
    /\ CircleRoundTrip
    /\ call.name = "get_x" =>
           ret.val = IF circle.x >= circle.radius THEN circle.x - circle.radius ELSE 0
    /\ call.name = "get_y" =>
           ret.val = IF circle.y >= circle.radius THEN circle.y - circle.radius ELSE 0

C18_Witness ==
    /\ call.name = "get_y" /\ call.after = [name |-> "set_y", v |-> 1]
    /\ circle.radius = 2 /\ circle.y = 3 /\ ret.val = 1
    /\ circle.x = 0 /\ get_x(circle) = 0

\* ---- the claim about sequences of writes ------------------------------------------------
\* the recorded writes to (x, y)
WritesTo(x, y) == {t \in written : t[1] = x /\ t[2] = y}

\* C21: after any sequence of set_pixel calls and shape draws every pixel of
\* the texture holds the color of the last successful write to its coordinate,
\* unblended, and black when there was none; a successful set_pixel(x, y, c)
\* changes the index y*width + x and no other.
C21_LastWriteWins ==
    /\ Len(pixels) = width * height
    /\ \A t \in written : InBounds(t[1], t[2])
    /\ \A x \in 0..(width - 1), y \in 0..(height - 1) :
           /\ Cardinality(WritesTo(x, y)) <= 1
           /\ pixels[y * width + x + 1] =
                  IF WritesTo(x, y) = {} THEN BLACK
                  ELSE (CHOOSE t \in WritesTo(x, y) : TRUE)[3]
    /\ (call.name \in {"set_pixel", "set_pixel_hex"} /\ ret = Ok) =>
           /\ pixels[call.y * width + call.x + 1] =
                  IF call.name = "set_pixel" THEN call.color ELSE from_hex(call.color)
           /\ \A i \in 1..Len(pixels) :
                  i # call.y * width + call.x + 1 => pixels[i] = old.pixels[i]

C21_Witness ==
    /\ call.name = "set_pixel" /\ ret = Ok /\ nops = 2
    /\ width = 2 /\ height = 3
    /\ call.x = 1 /\ call.y = 1 /\ call.color = BLUE_HALF
    /\ At(old.pixels, width, 1, 1) = GREEN /\ At(old.pixels, width, 0, 1) = GREEN
    /\ At(pixels, width, 1, 1) = BLUE_HALF /\ At(pixels, width, 0, 1) = GREEN
    /\ written = {<<0, 1, GREEN>>, <<1, 1, BLUE_HALF>>}

====
